---- MODULE Spec2Model ----
(***************************************************************************)
(* State-machine model of the water-quality dashboard's core:              *)
(*   - ChatbotLLM.get_response_openrouter (src/src/chatbot_llm.py), the    *)
(*     HTTP-transport chat gateway with its retry / backoff loop;          *)
(*   - start_command (src/src/telegram_bot.py), the pairing handler that   *)
(*     writes telegram_connection.json;                                    *)
(*   - the dashboard script (src/app.py): "Sincronizar con Bot", the alert *)
(*     evaluation and the alert dispatch.                                  *)
(***************************************************************************)
EXTENDS Integers, Sequences, FiniteSets, TLC

VARIABLES
    \* ---- chat gateway (one call of get_response_openrouter) ----
    g_pc,        \* "idle" | "post" | "sleep" | "done"
    attempt,     \* loop variable of `for attempt in range(max_retries)`
    delay,       \* the delay computed for the pending time.sleep
    responses,   \* outcomes of requests.post so far in this call
    waits,       \* delays time.sleep has completed in this call
    log,         \* events of this call, in order
    result,      \* what the call returned
    \* ---- pairing file, listener thread, dashboard session ----
    file,        \* telegram_connection.json
    l_pc,        \* "idle" | "opened" | "written"
    l_data,      \* connection_data of the command being handled
    acks,        \* outcome of the last acknowledgment of each sender
    session,     \* st.session_state of the dashboard session
    d_pc,        \* "idle" | "posting": a script run is in send_telegram_alert
    d_outcome,   \* how the last dashboard script run ended
    alert,       \* the last evaluation and its outbound call
    TOKEN,       \* whether TELEGRAM_TOKEN is set
    model,       \* whether load_artifacts() gave a model (or None)
    stdout_encodes, \* whether sys.stdout encodes the emoji of the prints
    last_put,    \* the last record written to the file, and what followed
    l_last,      \* the last step of the listener's handler
    bot_cache,   \* whether st.cache_resource holds iniciar_bot_en_background()
    threads_started, \* listener threads started in this process
    listener,    \* "not_started" | "starting" | "returned" | "polling" | "raised"
    \* ---- chat widget: st.session_state.chatbot and chat_messages ----
    chatbot,       \* the ChatbotLLM of the session, with its conversation_history
    chat_messages, \* the turns the widget holds and shows
    c_pc,          \* "idle" | "calling": a chat() call is in progress
    c_call,        \* the chat() call in progress
    c_last         \* the last widget operation that completed

gvars == <<g_pc, attempt, delay, responses, waits, log, result>>
\* the file and the listener's handler
lvars == <<file, l_pc, l_data, acks, last_put, l_last>>
\* the listener's bootstrap
bvars == <<bot_cache, threads_started, listener>>
\* the dashboard session
dvars == <<session, d_pc, d_outcome, alert>>
pvars == <<file, l_pc, l_data, acks, session, d_pc, d_outcome, alert, TOKEN,
           model, stdout_encodes, last_put, l_last, bot_cache, threads_started, listener>>
\* the chat widget
cvars == <<chatbot, chat_messages, c_pc, c_call, c_last>>
vars == <<g_pc, attempt, delay, responses, waits, log, result,
          file, l_pc, l_data, acks, session, d_pc, d_outcome, alert, TOKEN,
          model, stdout_encodes, last_put, l_last, bot_cache, threads_started, listener,
          chatbot, chat_messages, c_pc, c_call, c_last>>

(***************************************************************************)
(* Program constants of get_response_openrouter.                           *)
(***************************************************************************)
max_retries == 3
base_delay == 1
max_delay == 60

(***************************************************************************)
(* Values returned by get_response_openrouter: a Python str, identified    *)
(* by the literal that builds it (and the value formatted into it), or     *)
(* None.                                                                   *)
(***************************************************************************)
Str(m, a) == [kind |-> "str", msg |-> m, arg |-> a, text |-> ""]
PyNone == [kind |-> "None", msg |-> "", arg |-> 0, text |-> ""]

\* the reply text of a well-formed 200 response
MSG_REPLY == "reply"
Reply(r) == [kind |-> "str", msg |-> MSG_REPLY, arg |-> 0, text |-> r]
\* line 257
MSG_RATE_LIMIT == "limite_de_requests_alcanzado_espera_1_minuto_e_intenta"
\* line 271
MSG_RATE_LIMIT_HTTP == "limite_de_requests_alcanzado_espera_1_minuto_y_vuelve"
\* line 273
MSG_INVALID_KEY == "api_key_invalida"
\* line 275
MSG_NO_CREDIT == "creditos_insuficientes"
\* line 277
MSG_HTTP_ERROR == "error_http"
\* line 279
MSG_TIMEOUT == "timeout"
\* line 281
MSG_CONNECTION == "error_de_conexion"
\* line 283
MSG_BAD_FORMAT == "error_en_la_respuesta"
\* line 285
MSG_UNEXPECTED == "error_inesperado"

(***************************************************************************)
(* The provider.  One outcome of requests.post: an HTTP response, or an    *)
(* exception of the requests library.                                      *)
(***************************************************************************)
Header(s) == [present |-> TRUE, value |-> s]
NoHeader == [present |-> FALSE, value |-> <<>>]

\* Retry-After header values the provider may send with a 429
RetryAfterHeaders ==
    { NoHeader, Header(<<>>), Header(<<"0">>), Header(<<"5">>),
      Header(<<"9", "0">>), Header(<<"+", "2">>), Header(<<"-", "1">>),
      Header(<<"a">>), Header(<<"1", ".", "5">>),
      Header(<<"1", "_", "0">>), Header(<<" ", "5">>), Header(<<"_", "1">>),
      Header(<<"9", "9", "9", "9", "9", "9", "9", "9", "9", "9">>),
      Header(<<"9", "2", "2", "3", "3", "7", "2", "0", "3", "6">>),
      Header(<<"9", "0", "0", "0", "0", "0", "0", "0", "0", "0">>),
      Header(<<"-", "4", "0", "0", "0", "0", "0", "0", "0", "0", "0">>) }

\* shapes of the body of a 200 response
Bodies == {"reply", "null_content", "no_choices", "empty_choices", "not_json"}
Replies == {"r1", "r2"}
OtherStatuses == {201, 301, 401, 402, 500}

Resp(k, s, h, b, r) ==
    [kind |-> k, status |-> s, retry_after |-> h, body |-> b, reply |-> r]

Responses ==
    { Resp("http", 200, NoHeader, "reply", r) : r \in Replies }
    \cup { Resp("http", 200, NoHeader, b, "") : b \in Bodies \ {"reply"} }
    \cup { Resp("http", 429, h, "", "") : h \in RetryAfterHeaders }
    \cup { Resp("http", s, NoHeader, "", "") : s \in OtherStatuses }
    \cup { Resp("Timeout", 0, NoHeader, "", ""),
           Resp("ConnectionError", 0, NoHeader, "", "") }

\* response.json() on a body that is not JSON raises
\* requests.exceptions.JSONDecodeError (a RequestException) with
\* requests >= 2.27 and a plain ValueError before: the installed version
\* decides.
JSONErrorTypes == {"RequestsJSONDecodeError", "ValueError"}

(***************************************************************************)
(* Python ints.  A delay is held as its sign and its decimal digits, so    *)
(* that an int of any size is the value the code holds.                    *)
(***************************************************************************)
Digits == {"0", "1", "2", "3", "4", "5", "6", "7", "8", "9"}

DigitVal(c) ==
    CASE c = "0" -> 0 [] c = "1" -> 1 [] c = "2" -> 2 [] c = "3" -> 3
      [] c = "4" -> 4 [] c = "5" -> 5 [] c = "6" -> 6 [] c = "7" -> 7
      [] c = "8" -> 8 [] c = "9" -> 9

DigitChar(n) ==
    CASE n = 0 -> "0" [] n = 1 -> "1" [] n = 2 -> "2" [] n = 3 -> "3"
      [] n = 4 -> "4" [] n = 5 -> "5" [] n = 6 -> "6" [] n = 7 -> "7"
      [] n = 8 -> "8" [] n = 9 -> "9"

RECURSIVE Significant(_)
\* a digit sequence without its leading zeros
Significant(ds) ==
    IF ds # <<>> /\ ds[1] = "0" THEN Significant(Tail(ds)) ELSE ds

\* the int of sign neg and digits ds; zero has no digits and no sign
PyNum(neg, ds) ==
    [neg |-> neg /\ Significant(ds) # <<>>, digits |-> Significant(ds)]

RECURSIVE NatDigits(_)
NatDigits(n) ==
    IF n = 0 THEN <<>> ELSE Append(NatDigits(n \div 10), DigitChar(n % 10))

\* the int n
Numeral(n) ==
    IF n < 0 THEN PyNum(TRUE, NatDigits(0 - n)) ELSE PyNum(FALSE, NatDigits(n))

RECURSIVE DigitsGreater(_, _)
\* for digit sequences of equal length
DigitsGreater(a, b) ==
    IF a = <<>> THEN FALSE
    ELSE IF a[1] # b[1] THEN DigitVal(a[1]) > DigitVal(b[1])
    ELSE DigitsGreater(Tail(a), Tail(b))

\* a > b for the digits of two magnitudes
MagGreater(a, b) ==
    \/ Len(a) > Len(b)
    \/ Len(a) = Len(b) /\ DigitsGreater(a, b)

(***************************************************************************)
(* int(retry_after): whitespace, an optional sign, decimal digits.         *)
(***************************************************************************)
\* int(str) skips these around the number; the characters without an
\* escape are held by name: U+000B, U+0085, U+00A0.  It does not skip
\* U+001C..U+001F.
Whitespace == {" ", "\t", "\n", "\r", "\f", "VT", "NEL", "NBSP"}

RECURSIVE LStrip(_)
LStrip(s) == IF s # <<>> /\ s[1] \in Whitespace THEN LStrip(Tail(s)) ELSE s

RECURSIVE RStrip(_)
RStrip(s) ==
    IF s # <<>> /\ s[Len(s)] \in Whitespace
    THEN RStrip(SubSeq(s, 1, Len(s) - 1)) ELSE s

Strip(s) == RStrip(LStrip(s))

\* the number without its sign
Unsigned(s) ==
    IF Strip(s) # <<>> /\ Strip(s)[1] \in {"+", "-"} THEN Tail(Strip(s)) ELSE Strip(s)

IsDigit(c) == c \in Digits

\* the digits of the number, without the underscores between them
DigitsOf(s) == SelectSeq(Unsigned(s), IsDigit)

\* sys.int_max_str_digits of CPython 3.11: int() raises ValueError on a
\* str of more digits
int_max_str_digits == 4300

\* int(s) does not raise ValueError: optional whitespace, an optional
\* sign, then digits, with single underscores allowed between digits
IntParses(s) ==
    LET u == Unsigned(s) IN
    /\ u # <<>>
    /\ \A i \in 1..Len(u) : u[i] \in Digits \cup {"_"}
    /\ u[1] # "_"
    /\ u[Len(u)] # "_"
    /\ \A i \in 1..(Len(u) - 1) : ~(u[i] = "_" /\ u[i + 1] = "_")
    /\ Len(DigitsOf(s)) <= int_max_str_digits

\* int(s), for s that IntParses holds of
PyInt(s) == PyNum(Strip(s)[1] = "-", DigitsOf(s))

(***************************************************************************)
(* time.sleep(delay).                                                      *)
(***************************************************************************)
\* the largest number of seconds time.sleep converts to its C type; a
\* larger magnitude raises OverflowError, for a negative number too
SleepLimitDigits == <<"9", "2", "2", "3", "3", "7", "2", "0", "3", "6">>

\* the largest delay the clock takes at the call: the limit less the
\* reading of the monotonic clock, here 2 seconds and 10 years after boot
ClockLimits ==
    { <<"9", "2", "2", "3", "3", "7", "2", "0", "3", "4">>,
      <<"8", "9", "0", "8", "0", "1", "2", "0", "3", "6">> }

\* what time.sleep(d) does when lim is the largest delay the clock takes
SleepOutcome(d, lim) ==
    IF MagGreater(d.digits, SleepLimitDigits) THEN "OverflowError"
    ELSE IF d.neg THEN "ValueError"
    ELSE IF MagGreater(d.digits, lim) THEN "OSError"
    ELSE "slept"

RECURSIVE Pow2(_)
Pow2(n) == IF n = 0 THEN 1 ELSE 2 * Pow2(n - 1)

Min(a, b) == IF a < b THEN a ELSE b

\* mutation of ComputedDelay: the delay does not grow with the attempt
ComputedDelay_NoGrowth(a) == Min(base_delay, max_delay)

\* delay = min(base_delay * (2 ** attempt), max_delay)
ComputedDelay(a) == Min(base_delay * Pow2(a), max_delay)

\* `if retry_after:` is false for a missing header and for an empty string
Truthy(h) == h.present /\ h.value # <<>>

\* lines 242-250: the computed delay, overridden by int(Retry-After)
BackoffDelay(a, h) ==
    IF Truthy(h) /\ IntParses(h.value) THEN PyInt(h.value)
    ELSE Numeral(ComputedDelay(a))

(***************************************************************************)
(* Exceptions and the outer handlers (lines 269-285), tried in order.      *)
(***************************************************************************)
Exc(t, s) == [type |-> t, status |-> s]

IsRequestException(t) ==
    t \in {"HTTPError", "Timeout", "ConnectionError", "RequestsJSONDecodeError"}

\* mutation of OuterExcept: the RequestException handler is tried before
\* the Timeout handler
OuterExcept_ConnectionFirst(e) ==
    IF e.type = "HTTPError" THEN
        IF e.status = 429 THEN Str(MSG_RATE_LIMIT_HTTP, 0)
        ELSE IF e.status = 401 THEN Str(MSG_INVALID_KEY, 0)
        ELSE IF e.status = 402 THEN Str(MSG_NO_CREDIT, 0)
        ELSE Str(MSG_HTTP_ERROR, e.status)
    ELSE IF IsRequestException(e.type) THEN Str(MSG_CONNECTION, 0)
    ELSE IF e.type = "Timeout" THEN Str(MSG_TIMEOUT, 0)
    ELSE IF e.type = "KeyError" THEN Str(MSG_BAD_FORMAT, 0)
    ELSE Str(MSG_UNEXPECTED, 0)

OuterExcept(e) ==
    IF e.type = "HTTPError" THEN
        IF e.status = 429 THEN Str(MSG_RATE_LIMIT_HTTP, 0)
        ELSE IF e.status = 401 THEN Str(MSG_INVALID_KEY, 0)
        ELSE IF e.status = 402 THEN Str(MSG_NO_CREDIT, 0)
        ELSE Str(MSG_HTTP_ERROR, e.status)
    ELSE IF e.type = "Timeout" THEN Str(MSG_TIMEOUT, 0)
    ELSE IF IsRequestException(e.type) THEN Str(MSG_CONNECTION, 0)
    ELSE IF e.type = "KeyError" THEN Str(MSG_BAD_FORMAT, 0)
    ELSE Str(MSG_UNEXPECTED, 0)

\* response.raise_for_status() raises HTTPError for 4xx and 5xx
RaisesForStatus(s) == 400 <= s /\ s < 600

(***************************************************************************)
(* What one iteration of the loop does with the outcome of requests.post.  *)
(* step: "return" (the call returns value), "raise" (exc reaches the outer *)
(* handlers), "sleep" (time.sleep(delay), then continue) or "next" (the    *)
(* iteration ends and the for loop goes on).                               *)
(***************************************************************************)
Step(s, v, e, d) == [step |-> s, value |-> v, exc |-> e, delay |-> d]
\* the int 0
Zero == Numeral(0)
NoExc == Exc("", 0)

\* lines 235-236: result = response.json();
\* return result['choices'][0]['message']['content']
ReadReply(r, jerr) ==
    CASE r.body = "reply" -> Step("return", Reply(r.reply), NoExc, Zero)
      [] r.body = "null_content" -> Step("return", PyNone, NoExc, Zero)
      [] r.body = "no_choices" -> Step("raise", PyNone, Exc("KeyError", 0), Zero)
      [] r.body = "empty_choices" -> Step("raise", PyNone, Exc("IndexError", 0), Zero)
      [] r.body = "not_json" -> Step("raise", PyNone, Exc(jerr, 0), Zero)

\* mutation of OnRateLimit: the last attempt backs off too
OnRateLimit_AlwaysBacksOff(a, r) ==
    IF a < max_retries
    THEN Step("sleep", PyNone, NoExc, BackoffDelay(a, r.retry_after))
    ELSE Step("return", Str(MSG_RATE_LIMIT, 0), NoExc, Zero)

\* lines 239-257
OnRateLimit(a, r) ==
    IF a < max_retries - 1
    THEN Step("sleep", PyNone, NoExc, BackoffDelay(a, r.retry_after))
    ELSE Step("return", Str(MSG_RATE_LIMIT, 0), NoExc, Zero)

\* mutation of OnOtherStatus: the inner handler retries server errors
OnOtherStatus_Retries5xx(a, r) ==
    IF RaisesForStatus(r.status) THEN
        IF (r.status = 429 \/ r.status >= 500) /\ a < max_retries - 1
        THEN Step("sleep", PyNone, NoExc, Numeral(ComputedDelay(a)))
        ELSE Step("raise", PyNone, Exc("HTTPError", r.status), Zero)
    ELSE Step("next", PyNone, NoExc, Zero)

\* lines 260-267: raise_for_status, and the inner handler of HTTPError
OnOtherStatus(a, r) ==
    IF RaisesForStatus(r.status) THEN
        IF r.status = 429 /\ a < max_retries - 1
        THEN Step("sleep", PyNone, NoExc, Numeral(ComputedDelay(a)))
        ELSE Step("raise", PyNone, Exc("HTTPError", r.status), Zero)
    ELSE Step("next", PyNone, NoExc, Zero)

\* lines 210-267: the body of the for loop
Iteration(a, r, jerr) ==
    IF r.kind # "http" THEN Step("raise", PyNone, Exc(r.kind, 0), Zero)
    ELSE IF r.status = 200 THEN ReadReply(r, jerr)
    ELSE IF r.status = 429 THEN OnRateLimit(a, r)
    ELSE OnOtherStatus(a, r)

\* an event of the call's log: a request with its attempt, a response
\* with its status, or a time.sleep with its argument
Event(e, v) == [ev |-> e, val |-> v, delay |-> Zero]
SleepEvent(e, d) == [ev |-> e, val |-> 0, delay |-> d]

(***************************************************************************)
(* Actions of the gateway.                                                 *)
(***************************************************************************)
\* get_response_openrouter is called: lines 185-209
GetResponseStart ==
    /\ g_pc \in {"idle", "done"}
    /\ c_pc = "idle"
    /\ g_pc' = "post"
    /\ attempt' = 0
    /\ delay' = Zero
    /\ responses' = <<>>
    /\ waits' = <<>>
    /\ log' = <<>>
    /\ result' = PyNone
    /\ UNCHANGED <<pvars, cvars>>

\* line 209: the for loop takes its next value; when range(max_retries)
\* is exhausted the function body ends and the call returns None
NextIteration ==
    IF attempt + 1 < max_retries
    THEN g_pc' = "post" /\ attempt' = attempt + 1 /\ result' = result
    ELSE g_pc' = "done" /\ attempt' = attempt /\ result' = PyNone

\* one requests.post, answered by one of the outcomes rs, and the
\* handling of its outcome: lines 210-285
PostFrom(rs) ==
    /\ g_pc = "post"
    /\ \E r \in rs, jerr \in JSONErrorTypes :
        LET it == Iteration(attempt, r, jerr) IN
        /\ responses' = Append(responses, r)
        /\ log' = log \o <<Event("request", attempt),
                           Event("response", IF r.kind = "http" THEN r.status ELSE 0)>>
        /\ waits' = waits
        /\ CASE it.step = "return" ->
                  /\ g_pc' = "done"
                  /\ result' = it.value
                  /\ UNCHANGED <<attempt, delay>>
             [] it.step = "raise" ->
                  /\ g_pc' = "done"
                  /\ result' = OuterExcept(it.exc)
                  /\ UNCHANGED <<attempt, delay>>
             [] it.step = "sleep" ->
                  /\ g_pc' = "sleep"
                  /\ delay' = it.delay
                  /\ UNCHANGED <<attempt, result>>
             [] it.step = "next" ->
                  /\ NextIteration
                  /\ UNCHANGED delay
    /\ UNCHANGED <<pvars, cvars>>

Post == PostFrom(Responses)

\* time.sleep(delay); continue: lines 254-255.  time.sleep raises
\* OverflowError for an argument beyond its C type, ValueError for a
\* negative one and OSError for one the clock does not take; each
\* reaches `except Exception`.
Sleep ==
    /\ g_pc = "sleep"
    /\ \E lim \in ClockLimits :
        IF SleepOutcome(delay, lim) # "slept"
        THEN /\ g_pc' = "done"
             /\ result' = OuterExcept(Exc(SleepOutcome(delay, lim), 0))
             /\ log' = Append(log, SleepEvent("sleep_raises", delay))
             /\ UNCHANGED <<attempt, waits>>
        ELSE /\ NextIteration
             /\ waits' = Append(waits, delay)
             /\ log' = Append(log, SleepEvent("sleep", delay))
    /\ UNCHANGED <<delay, responses>>
    /\ UNCHANGED <<pvars, cvars>>

GatewayInit ==
    /\ g_pc = "idle"
    /\ attempt = 0
    /\ delay = Zero
    /\ responses = <<>>
    /\ waits = <<>>
    /\ log = <<>>
    /\ result = PyNone


(***************************************************************************)
(* Python values held in connection_data, the JSON file and the session.   *)
(***************************************************************************)
PInt(i) == [t |-> "int", i |-> i, s |-> ""]
PStr(s) == [t |-> "str", i |-> 0, s |-> s]
PNoneV == [t |-> "None", i |-> 0, s |-> ""]
\* a key that a dict or st.session_state does not hold
Missing == [t |-> "missing", i |-> 0, s |-> ""]

\* Python truthiness of a value (`if chat_id:`)
IsTruthy(v) ==
    CASE v.t = "int" -> v.i # 0
      [] v.t = "str" -> v.s # ""
      [] OTHER -> FALSE

\* a dict is its sequence of <<key, value>> items, in insertion order
DictHas(d, k) == \E n \in 1..Len(d) : d[n][1] = k
DictGet(d, k) == d[CHOOSE n \in 1..Len(d) : d[n][1] = k][2]

(***************************************************************************)
(* json.dump / json.load.  A JSON text is the object's opening brace, its  *)
(* members and its closing brace; a member's value is a JSON literal.      *)
(***************************************************************************)
JNumber(i) == [j |-> "number", i |-> i, s |-> ""]
JString(s) == [j |-> "string", i |-> 0, s |-> s]
JNull == [j |-> "null", i |-> 0, s |-> ""]

Encode(v) ==
    CASE v.t = "int" -> JNumber(v.i)
      [] v.t = "str" -> JString(v.s)
      [] v.t = "None" -> JNull

\* mutation of Decode: null is read back as the text "null"
Decode_NullAsText(l) ==
    CASE l.j = "number" -> PInt(l.i)
      [] l.j = "string" -> PStr(l.s)
      [] l.j = "null" -> PStr("null")

Decode(l) ==
    CASE l.j = "number" -> PInt(l.i)
      [] l.j = "string" -> PStr(l.s)
      [] l.j = "null" -> PNoneV

JsonText(o, m, c) == [open |-> o, members |-> m, close |-> c]
\* what a file holds after open(..., "w") and before the buffer is flushed
EmptyText == JsonText(FALSE, <<>>, FALSE)

json_dumps(d) ==
    JsonText(TRUE, [n \in 1..Len(d) |-> <<d[n][1], Encode(d[n][2])>>], TRUE)

\* json.load raises JSONDecodeError on a text that is no complete object
JsonParses(txt) == txt.open /\ txt.close

json_loads(txt) ==
    [n \in 1..Len(txt.members) |-> <<txt.members[n][1], Decode(txt.members[n][2])>>]

(***************************************************************************)
(* The shared file telegram_connection.json.                               *)
(***************************************************************************)
NoFile == [exists |-> FALSE, text |-> EmptyText]
FileWith(txt) == [exists |-> TRUE, text |-> txt]

\* senders of /start: effective_chat.id, first_name, username (str or None)
Senders ==
    { [chat_id |-> 1, first_name |-> "Ana", username |-> PStr("ana")],
      [chat_id |-> 2, first_name |-> "Bo", username |-> PNoneV] }

\* lines 49-53 of telegram_bot.py
connection_data(u) ==
    << <<"chat_id", PInt(u.chat_id)>>,
       <<"name", PStr(u.first_name)>>,
       <<"username", u.username>> >>

NoData == <<>>

(***************************************************************************)
(* The listener thread: start_command, lines 44-67 of telegram_bot.py.     *)
(* run_listener returns at once without a TOKEN (lines 71-73), so the      *)
(* handler runs only with one.                                             *)
(***************************************************************************)
\* the last step of the handler: what it did, for which command, and how
\* many times it has called send_message for that command
LStep(st, d, n) == [step |-> st, data |-> d, acks_tried |-> n]
NoStep == LStep("none", NoData, 0)

\* the record the file holds, and whether a later write failed on it
Put(d, f) == [data |-> d, failed_after |-> f]

\* lines 45-57: build connection_data and open(SHARED_FILE, "w"), which
\* truncates the file; an OSError is caught at line 66
StartCommand ==
    /\ listener = "polling"
    /\ l_pc = "idle"
    /\ \E u \in Senders, opened \in BOOLEAN :
        IF opened
        THEN /\ file' = FileWith(EmptyText)
             /\ l_pc' = "opened"
             /\ l_data' = connection_data(u)
             /\ l_last' = LStep("opened", connection_data(u), 0)
             /\ UNCHANGED last_put
        ELSE /\ l_last' = LStep("open_failed", connection_data(u), 0)
             /\ UNCHANGED <<file, l_pc, l_data, last_put>>
    /\ UNCHANGED <<acks, TOKEN, model, stdout_encodes>>
    /\ UNCHANGED <<dvars, bvars, gvars, cvars>>

\* mutation of WriteClose: the handler goes on to the acknowledgment
\* after a failed write
WriteClose_AckAfterFailure ==
    /\ l_pc = "opened"
    /\ \E flushed \in BOOLEAN :
        /\ l_pc' = "written"
        /\ file' = IF flushed THEN FileWith(json_dumps(l_data)) ELSE file
        /\ last_put' = IF flushed THEN Put(l_data, FALSE) ELSE Put(last_put.data, TRUE)
        /\ l_last' = LStep(IF flushed THEN "flushed" ELSE "flush_failed", l_data, 0)
        /\ UNCHANGED l_data
    /\ UNCHANGED <<acks, TOKEN, model, stdout_encodes>>
    /\ UNCHANGED <<dvars, bvars, gvars, cvars>>

\* bound: the whole members a failed flush is followed to leave in the file
MaxPartial == 1

\* what the file holds when the flush fails: nothing, or the start of
\* the text up to some member (a member cut short counts as not written)
PartialTexts(d) ==
    {EmptyText} \cup
    { JsonText(TRUE, SubSeq(json_dumps(d).members, 1, k), FALSE) :
        k \in 0..(IF MaxPartial < Len(d) THEN MaxPartial ELSE Len(d)) }

\* line 58 and the end of the with block: json.dump fills the buffer and
\* close() flushes it to the file; an OSError is caught at line 66, with
\* none or a part of the text in the file
WriteClose ==
    /\ l_pc = "opened"
    /\ \E flushed \in BOOLEAN :
        IF flushed
        THEN /\ file' = FileWith(json_dumps(l_data))
             /\ l_pc' = "written"
             /\ last_put' = Put(l_data, FALSE)
             /\ l_last' = LStep("flushed", l_data, 0)
             /\ UNCHANGED l_data
        ELSE /\ \E txt \in PartialTexts(l_data) : file' = FileWith(txt)
             /\ l_pc' = "idle"
             /\ l_data' = NoData
             /\ last_put' = Put(last_put.data, TRUE)
             /\ l_last' = LStep("flush_failed", l_data, 0)
    /\ UNCHANGED <<acks, TOKEN, model, stdout_encodes>>
    /\ UNCHANGED <<dvars, bvars, gvars, cvars>>

\* mutation of SendAck: a failed acknowledgment is tried again
SendAck_RetriesOnFailure ==
    /\ l_pc = "written"
    /\ \E sent \in BOOLEAN :
        /\ acks' = [to |-> DictGet(l_data, "chat_id"), sent |-> sent]
        /\ l_last' = LStep(IF sent THEN "ack_sent" ELSE "ack_failed", l_data,
                           l_last.acks_tried + 1)
        /\ l_pc' = IF sent \/ l_last.acks_tried >= 1 THEN "idle" ELSE "written"
        /\ l_data' = IF sent \/ l_last.acks_tried >= 1 THEN NoData ELSE l_data
    /\ UNCHANGED <<file, last_put, TOKEN, model, stdout_encodes>>
    /\ UNCHANGED <<dvars, bvars, gvars, cvars>>

\* lines 60-67: the print of line 60, whose text holds an emoji, then
\* the acknowledgment; a failure of either is caught and printed, and
\* after a failed print send_message is not called
SendAck ==
    /\ l_pc = "written"
    /\ IF ~stdout_encodes
       THEN /\ l_last' = LStep("print_failed", l_data, l_last.acks_tried)
            /\ UNCHANGED acks
       ELSE \E sent \in BOOLEAN :
            /\ acks' = [to |-> DictGet(l_data, "chat_id"), sent |-> sent]
            /\ l_last' = LStep(IF sent THEN "ack_sent" ELSE "ack_failed", l_data,
                               l_last.acks_tried + 1)
    /\ l_pc' = "idle"
    /\ l_data' = NoData
    /\ UNCHANGED <<file, last_put, TOKEN, model, stdout_encodes>>
    /\ UNCHANGED <<dvars, bvars, gvars, cvars>>

(***************************************************************************)
(* The listener's bootstrap: lines 15-28 of app.py, run at the top of      *)
(* every script run, and run_listener, lines 69-80 of telegram_bot.py.     *)
(***************************************************************************)
\* lines 71-80: without a TOKEN the function prints and returns; with one
\* it builds the application, prints and calls run_polling, which polls,
\* or raises where the installed python-telegram-bot cannot run outside
\* the main thread (the thread then ends).  The prints of lines 72 and 78
\* hold an emoji: print raises UnicodeEncodeError on a sys.stdout that
\* does not encode it.
run_listener(token, encodes) ==
    IF ~encodes THEN {"raised"}
    ELSE IF ~token THEN {"returned"}
    ELSE {"polling", "raised"}

\* mutation of iniciar_bot_en_background: the function is not cached
iniciar_bot_en_background_Uncached ==
    /\ bot_cache' = TRUE
    /\ threads_started' = threads_started + 1
    /\ listener' = "starting"

\* st.cache_resource runs the body on the first call of the process and
\* returns the cached thread on every later call, from any rerun and any
\* session; the body starts the thread whose target is run_listener and
\* returns (lines 23-25)
iniciar_bot_en_background ==
    IF bot_cache
    THEN UNCHANGED <<bot_cache, threads_started, listener>>
    ELSE /\ bot_cache' = TRUE
         /\ threads_started' = threads_started + 1
         /\ listener' = "starting"

\* the started thread runs its target, run_listener, beside the script
RunListener ==
    /\ listener = "starting"
    /\ listener' \in run_listener(TOKEN, stdout_encodes)
    /\ UNCHANGED <<bot_cache, threads_started, TOKEN, model, stdout_encodes>>
    /\ UNCHANGED <<lvars, dvars, gvars, cvars>>

(***************************************************************************)
(* The dashboard session.                                                  *)
(***************************************************************************)
Session(id, name) == [tg_id |-> id, tg_name |-> name]
NoSession == Session(Missing, Missing)

\* lines 201-208 of app.py: what the read of the file does.  open()
\* raises FileNotFoundError, caught at line 209 (st.warning), or another
\* OSError when it cannot open (a file it may not read, no descriptor
\* left), whether the file exists or not; that one and the exceptions of
\* json.load and of the subscripts are not caught and end the script run.
SyncRead(f, readable) ==
    IF ~readable THEN "OSError"
    ELSE IF ~f.exists THEN "FileNotFoundError"
    ELSE IF ~JsonParses(f.text) THEN "JSONDecodeError"
    ELSE IF ~DictHas(json_loads(f.text), "chat_id") THEN "KeyError_chat_id"
    ELSE IF ~DictHas(json_loads(f.text), "name") THEN "KeyError_name"
    ELSE "ok"

\* lines 206-207: the session after the button's block
SyncSession(f, readable, s) ==
    CASE SyncRead(f, readable) = "ok" ->
            Session(DictGet(json_loads(f.text), "chat_id"),
                    DictGet(json_loads(f.text), "name"))
      [] SyncRead(f, readable) = "KeyError_name" ->
            Session(DictGet(json_loads(f.text), "chat_id"), s.tg_name)
      [] OTHER -> s

\* lines 213-214, reached by every script run that nothing ended before:
\* with 'tg_id' in the session, st.session_state['tg_name'] is read, and
\* raises KeyError when the session does not hold it
CaptionRaises(s) == s.tg_id # Missing /\ s.tg_name = Missing

\* how the button's script run gets past line 216: "ok", the caught
\* "FileNotFoundError", or the exception that ended it
SyncExc(f, readable, s) ==
    IF /\ SyncRead(f, readable) \in {"ok", "FileNotFoundError"}
       /\ CaptionRaises(SyncSession(f, readable, s))
    THEN "KeyError_tg_name"
    ELSE SyncRead(f, readable)

\* mutation of SyncOutcome: the handler catches another exception than
\* FileNotFoundError
SyncOutcome_NotFoundUncaught(f, readable, s) ==
    CASE SyncExc(f, readable, s) = "ok" -> "success"
      [] SyncExc(f, readable, s) = "JSONDecodeError" -> "warning_not_paired"
      [] OTHER -> "raised"

\* how the script run of the button ends
SyncOutcome(f, readable, s) ==
    CASE SyncExc(f, readable, s) = "ok" -> "success"
      [] SyncExc(f, readable, s) = "FileNotFoundError" -> "warning_not_paired"
      [] OTHER -> "raised"

SendOutcome(k, s, t) == [kind |-> k, status |-> s, text |-> t]
NoSend == SendOutcome("none", 0, "")

\* the alert block of the last script run: the sample it evaluated, what
\* it decided, whether it called send_telegram_alert, and what that gave
NoAlert ==
    [ran |-> FALSE, prediction |-> 1, confidence |-> 0, ph |-> 70,
     triggered |-> FALSE, reasons |-> <<>>, invoked |-> FALSE,
     outcome |-> NoSend, calls |-> 0,
     to |-> Missing, store |-> NoFile, ok |-> FALSE, detail |-> <<>>]

\* how a script run ended: the button pressed, the outcome, the
\* exception (the one that ended the run, or the one caught), whether
\* st.warning of line 210 was shown, the file the button read and the
\* session before the run
Outcome(op, how, exc, w, f, s) ==
    [op |-> op, how |-> how, exc |-> exc, warned |-> w, read |-> f, before |-> s]

\* a script run in which no button was pressed: the bootstrap of line 28
\* and the caption of lines 213-216
Rerun ==
    /\ d_pc = "idle"
    /\ iniciar_bot_en_background
    /\ d_outcome' = IF CaptionRaises(session)
                    THEN Outcome("rerun", "raised", "KeyError_tg_name", FALSE,
                                 NoFile, session)
                    ELSE Outcome("rerun", "success", "ok", FALSE, NoFile, session)
    /\ alert' = NoAlert
    /\ UNCHANGED <<session, d_pc, TOKEN, model, stdout_encodes>>
    /\ UNCHANGED <<lvars, gvars, cvars>>

\* the button "Sincronizar con Bot": line 28, then lines 200-216
Sincronizar ==
    /\ d_pc = "idle"
    /\ iniciar_bot_en_background
    /\ \E readable \in BOOLEAN :
        /\ session' = SyncSession(file, readable, session)
        /\ d_outcome' = Outcome("sync", SyncOutcome(file, readable, session),
                                SyncExc(file, readable, session),
                                SyncRead(file, readable) = "FileNotFoundError",
                                file, session)
    /\ alert' = NoAlert
    /\ UNCHANGED <<d_pc, TOKEN, model, stdout_encodes>>
    /\ UNCHANGED <<lvars, gvars, cvars>>


(***************************************************************************)
(* The alert evaluation, lines 273-286 of app.py.  pH values are in tenths *)
(* (the slider's step is 0.1), confidences in tenths of a percent.         *)
(***************************************************************************)
Predictions == {0, 1}
Confidences == {830, 1000}
PhValues == {64, 65, 70, 85, 86}

Reason(rule, v) == [rule |-> rule, val |-> v]

\* mutation of Evaluate: the limits 6.5 and 8.5 are out of range too
Evaluate_InclusiveBounds(prediction, confidence, ph_val) ==
    LET ia == prediction = 0
        ph == ph_val <= 65 \/ ph_val >= 85
    IN [trigger |-> ia \/ ph,
        reasons |-> (IF ia THEN <<Reason("IA detecto riesgo", confidence)>> ELSE <<>>)
                    \o (IF ph THEN <<Reason("pH fuera de norma", ph_val)>> ELSE <<>>)]

\* mutation of Evaluate: the range rule appends its reason without
\* setting trigger
Evaluate_RangeDoesNotTrigger(prediction, confidence, ph_val) ==
    LET ia == prediction = 0
        ph == ph_val < 65 \/ ph_val > 85
    IN [trigger |-> ia,
        reasons |-> (IF ia THEN <<Reason("IA detecto riesgo", confidence)>> ELSE <<>>)
                    \o (IF ph THEN <<Reason("pH fuera de norma", ph_val)>> ELSE <<>>)]

\* lines 273-286: trigger and reasons of one sample
Evaluate(prediction, confidence, ph_val) ==
    LET ia == prediction = 0
        ph == ph_val < 65 \/ ph_val > 85
    IN [trigger |-> ia \/ ph,
        reasons |-> (IF ia THEN <<Reason("IA detecto riesgo", confidence)>> ELSE <<>>)
                    \o (IF ph THEN <<Reason("pH fuera de norma", ph_val)>> ELSE <<>>)]

(***************************************************************************)
(* send_telegram_alert, lines 19-39 of telegram_bot.py, on one outcome of  *)
(* its requests.post.                                                      *)
(***************************************************************************)
\* outcomes of requests.post: a response with its status_code and text,
\* or an exception with its str()
SendOutcomes ==
    { SendOutcome("http", 200, "ok"),
      SendOutcome("http", 201, "created"),
      SendOutcome("http", 500, ""),
      SendOutcome("exception", 0, "connection refused") }

Sent(c, ok, d) == [calls |-> c, ok |-> ok, detail |-> d]

\* mutation of send_telegram_alert: a failed post is tried once more
send_telegram_alert_RetriesOnError(token, o) ==
    IF ~token THEN Sent(0, FALSE, <<"No hay TOKEN en .env">>)
    ELSE IF o.kind = "http" THEN
        IF o.status = 200 THEN Sent(1, TRUE, <<"Enviado">>)
        ELSE Sent(2, FALSE, <<"Error API: ", o.text>>)
    ELSE Sent(2, FALSE, <<o.text>>)

\* mutation of send_telegram_alert: every 2xx status counts as delivered
send_telegram_alert_Any2xxDelivered(token, o) ==
    IF ~token THEN Sent(0, FALSE, <<"No hay TOKEN en .env">>)
    ELSE IF o.kind = "http" THEN
        IF o.status >= 200 /\ o.status < 300 THEN Sent(1, TRUE, <<"Enviado">>)
        ELSE Sent(1, FALSE, <<"Error API: ", o.text>>)
    ELSE Sent(1, FALSE, <<o.text>>)

\* lines 19-39: the number of requests.post calls, and the pair returned
send_telegram_alert(token, o) ==
    IF ~token THEN Sent(0, FALSE, <<"No hay TOKEN en .env">>)
    ELSE IF o.kind = "http" THEN
        IF o.status = 200 THEN Sent(1, TRUE, <<"Enviado">>)
        ELSE Sent(1, FALSE, <<"Error API: ", o.text>>)
    ELSE Sent(1, FALSE, <<o.text>>)

\* chat_id = st.session_state.get('tg_id')
SessionGet(v) == IF v = Missing THEN PNoneV ELSE v

\* mutation of HasRecipient: the dispatch does not depend on the session
HasRecipient_Always(s) == TRUE

\* line 293: `if chat_id:`
HasRecipient(s) == IsTruthy(SessionGet(s.tg_id))

\* the alert block of a script run that evaluated a sample: prediction,
\* confidence, pH, the evaluation, whether send_telegram_alert was
\* called, for whom and with which file in place, and what it gave
Alert(p, c, ph, ev, sends, to, f, o, r) ==
    [ran |-> TRUE, prediction |-> p, confidence |-> c, ph |-> ph,
     triggered |-> ev.trigger, reasons |-> ev.reasons, invoked |-> sends,
     outcome |-> IF r.calls > 0 THEN o ELSE NoSend, calls |-> r.calls,
     to |-> to, store |-> f, ok |-> r.ok, detail |-> r.detail]

\* the button "Analizar Muestra": line 28, the caption of lines 213-216,
\* then lines 264-300.  Without a model line 264 skips the block; with a
\* recipient and a TOKEN the run enters requests.post and waits there.
Analizar ==
    /\ d_pc = "idle"
    /\ iniciar_bot_en_background
    /\ IF CaptionRaises(session)
       THEN /\ alert' = NoAlert
            /\ d_outcome' = Outcome("analyze", "raised", "KeyError_tg_name",
                                    FALSE, NoFile, session)
            /\ UNCHANGED d_pc
       ELSE IF ~model
       THEN /\ alert' = NoAlert
            /\ d_outcome' = Outcome("analyze", "success", "ok", FALSE, NoFile,
                                    session)
            /\ UNCHANGED d_pc
       ELSE \E prediction \in Predictions, confidence \in Confidences,
               ph_val \in PhValues :
            LET ev == Evaluate(prediction, confidence, ph_val)
                sends == ev.trigger /\ HasRecipient(session)
                \* send_telegram_alert gets past lines 22-24 to its post
                posts == sends /\ TOKEN
                r == IF sends /\ ~TOKEN THEN send_telegram_alert(TOKEN, NoSend)
                     ELSE Sent(0, FALSE, <<>>)
            IN /\ alert' = Alert(prediction, confidence, ph_val, ev, sends,
                                 IF posts THEN session.tg_id ELSE Missing,
                                 file, NoSend, r)
               /\ d_pc' = IF posts THEN "posting" ELSE "idle"
               /\ d_outcome' = Outcome("analyze",
                                       IF posts THEN "posting" ELSE "success",
                                       "ok", FALSE, NoFile, session)
    /\ UNCHANGED <<session, TOKEN, model, stdout_encodes>>
    /\ UNCHANGED <<lvars, gvars, cvars>>

\* requests.post of send_telegram_alert returns or raises, and the
\* script run goes on: lines 300-305
AlertPost ==
    /\ d_pc = "posting"
    /\ \E o \in SendOutcomes :
        LET r == send_telegram_alert(TOKEN, o)
            \* line 303 reads st.session_state['tg_name']
            toast_raises == r.ok /\ session.tg_name = Missing
        IN /\ alert' = [alert EXCEPT !.outcome = IF r.calls > 0 THEN o ELSE NoSend,
                                     !.calls = r.calls, !.ok = r.ok,
                                     !.detail = r.detail]
           /\ d_outcome' = Outcome("analyze",
                                   IF toast_raises THEN "raised" ELSE "success",
                                   IF toast_raises THEN "KeyError_tg_name" ELSE "ok",
                                   FALSE, NoFile, session)
    /\ d_pc' = "idle"
    /\ UNCHANGED <<session, TOKEN, model, stdout_encodes>>
    /\ UNCHANGED <<lvars, bvars, gvars, cvars>>

(***************************************************************************)
(* The chat widget, create_chatbot_widget of chatbot_llm.py, and the       *)
(* ChatbotLLM object it keeps in st.session_state.chatbot.                 *)
(***************************************************************************)
\* the values of provider_map, lines 540-545
Providers == {"openrouter", "openai", "google", "anthropic"}

\* what the user types in st.chat_input
Prompts == {"hola", "ph"}

\* the widget accepts a prompt while chat_messages holds fewer than
\* MaxRounds rounds
MaxRounds == 2

\* a str typed by the user, as a Python value like the gateway's results
UserText(p) == [kind |-> "str", msg |-> "user_message", arg |-> 0, text |-> p]

\* a dict {"role": ..., "content": ...}: lines 107-110 and 745-748
Turn(role, content) == [role |-> role, content |-> content]

\* lines 40-81: a new object starts with an empty conversation_history
ChatbotLLM(provider) ==
    [connected |-> TRUE, provider |-> provider, conversation_history |-> <<>>]

\* st.session_state.chatbot = None, lines 343-344
NoChatbot == [connected |-> FALSE, provider |-> "", conversation_history |-> <<>>]

\* lines 105-110
add_message(bot, role, content) ==
    [bot EXCEPT !.conversation_history = Append(@, Turn(role, content))]

\* lines 112-114
clear_history(bot) == [bot EXCEPT !.conversation_history = <<>>]

\* lines 136-137, 157-158, 182-183: the text the SDK providers return when
\* their call raises
MSG_SDK_ERROR == "error_al_conectar_con"
ProviderCode(p) ==
    CASE p = "openai" -> 1 [] p = "google" -> 2 [] p = "anthropic" -> 3
      [] OTHER -> 0

\* get_response_openai, get_response_google, get_response_anthropic,
\* lines 116-183: the reply of the SDK call, or the error text
SdkOutcomes == {"reply", "raises"}
get_response_sdk(provider, out, r) ==
    IF out = "reply" THEN Reply(r) ELSE Str(MSG_SDK_ERROR, ProviderCode(provider))

\* outcomes of requests.post during a chat turn of the widget
ChatResponses ==
    { Resp("http", 200, NoHeader, "reply", "r1"),
      Resp("http", 429, NoHeader, "", ""),
      Resp("http", 201, NoHeader, "", ""),
      Resp("Timeout", 0, NoHeader, "", "") }

\* self.system_context, lines 53-79, as a message content
SystemText == [kind |-> "str", msg |-> "system_context", arg |-> 0, text |-> ""]

\* lines 191-202 (and 120-124, 143-150, 164-177 for the SDK providers):
\* the request is the system context, then every turn of
\* conversation_history as it is when the provider method runs, then
\* user_message
build_messages(bot, user_message) ==
    <<Turn("system", SystemText)>>
    \o bot.conversation_history
    \o <<Turn("user", user_message)>>

CallRec(p, h, m, rq) ==
    [prompt |-> p, history_at_call |-> h, messages_at_call |-> m, request |-> rq]
NoCall == CallRec("", <<>>, <<>>, <<>>)

\* the last operation of the widget: the conversation_history and the
\* chat_messages when the operation (for "chat": the call of chat())
\* began and when it ended, and for "chat" the request it sent
LastOp(op, hb, ha, mb, ma, rq) ==
    [op |-> op, history_before |-> hb, history_after |-> ha,
     messages_before |-> mb, messages_after |-> ma, request |-> rq]
NoOp == LastOp("none", <<>>, <<>>, <<>>, <<>>, <<>>)

\* mutation of ChatCompletes: a reply that reports a failure is returned
\* but not appended to either list
ChatCompletes_FailureDropsReply(bot, msgs, call, response) ==
    /\ chatbot' = IF response.msg = MSG_REPLY
                  THEN add_message(bot, "assistant", response) ELSE bot
    /\ chat_messages' = IF response.msg = MSG_REPLY
                        THEN Append(msgs, Turn("assistant", response)) ELSE msgs
    /\ c_last' = LastOp("chat", call.history_at_call, chatbot'.conversation_history,
                        call.messages_at_call, msgs, call.request)
    /\ c_pc' = "idle"
    /\ c_call' = NoCall

\* lines 311-316 of chat() and lines 752-757 of the widget: the reply is
\* appended to conversation_history, returned, and appended to
\* chat_messages
ChatCompletes(bot, msgs, call, response) ==
    /\ chatbot' = add_message(bot, "assistant", response)
    /\ chat_messages' = Append(msgs, Turn("assistant", response))
    /\ c_last' = LastOp("chat", call.history_at_call,
                        add_message(bot, "assistant", response).conversation_history,
                        call.messages_at_call, msgs, call.request)
    /\ c_pc' = "idle"
    /\ c_call' = NoCall

\* the chat input, lines 744-751, and chat(), lines 288-309: the widget
\* appends the user turn to chat_messages and calls chat(prompt), which
\* appends it to conversation_history and calls the provider, where the
\* script run waits: the openrouter call goes on in ChatPost and
\* ChatSleep, the call of an SDK in SdkCall.  The guard on the length
\* is the bound MaxRounds.
ChatSubmit ==
    /\ chatbot.connected
    /\ c_pc = "idle"
    /\ Len(chat_messages) < 2 * MaxRounds
    /\ \E p \in Prompts :
        LET msgs == Append(chat_messages, Turn("user", UserText(p)))
            bot == add_message(chatbot, "user", UserText(p))
            call == CallRec(p, chatbot.conversation_history, msgs,
                            build_messages(bot, UserText(p)))
        IN /\ chat_messages' = msgs
           /\ chatbot' = bot
           /\ c_call' = call
           /\ c_pc' = "calling"
           /\ UNCHANGED c_last
           /\ IF chatbot.provider = "openrouter"
              THEN /\ g_pc' = "post"
                   /\ attempt' = 0
                   /\ delay' = Zero
                   /\ responses' = <<>>
                   /\ waits' = <<>>
                   /\ log' = <<>>
                   /\ result' = PyNone
              ELSE UNCHANGED gvars
    /\ UNCHANGED pvars

\* the call of the provider's SDK returns or raises: lines 116-183
SdkCall ==
    /\ c_pc = "calling"
    /\ chatbot.provider # "openrouter"
    /\ \E out \in SdkOutcomes :
        ChatCompletes(chatbot, chat_messages, c_call,
                      get_response_sdk(chatbot.provider, out, "r1"))
    /\ UNCHANGED <<gvars, pvars>>

\* a request of get_response_openrouter, which chat() calls for the
\* provider "openrouter" alone: line 308
ChatPost ==
    /\ c_pc = "calling"
    /\ chatbot.provider = "openrouter"
    /\ PostFrom(ChatResponses)

\* a wait of get_response_openrouter: lines 308 and 254
ChatSleep ==
    /\ c_pc = "calling"
    /\ chatbot.provider = "openrouter"
    /\ Sleep

\* get_response_openrouter has returned to chat(), which took that
\* branch for the provider "openrouter" alone (line 308): lines 311-316
\* and 752-757
ChatReturn ==
    /\ c_pc = "calling"
    /\ chatbot.provider = "openrouter"
    /\ g_pc = "done"
    /\ ChatCompletes(chatbot, chat_messages, c_call, result)
    /\ g_pc' = "idle"
    /\ attempt' = 0
    /\ delay' = Zero
    /\ responses' = <<>>
    /\ waits' = <<>>
    /\ log' = <<>>
    /\ result' = PyNone
    /\ UNCHANGED pvars

\* the button "Conectar", lines 565-578: without an API key an error is
\* shown; else a new ChatbotLLM replaces the session's, unless its
\* construction raises (line 103), which is caught
Conectar ==
    /\ c_pc = "idle"
    /\ \E provider \in Providers, api_key \in BOOLEAN, built \in BOOLEAN :
        /\ chatbot' = IF api_key /\ built THEN ChatbotLLM(provider) ELSE chatbot
        /\ c_last' = LastOp(IF api_key /\ built THEN "connect" ELSE "connect_failed",
                            chatbot.conversation_history,
                            chatbot'.conversation_history,
                            chat_messages, chat_messages, <<>>)
    /\ UNCHANGED <<chat_messages, c_pc, c_call>>
    /\ UNCHANGED <<gvars, pvars>>

\* the button "Limpiar", lines 581-585
Limpiar ==
    /\ c_pc = "idle"
    /\ chat_messages' = <<>>
    /\ chatbot' = IF chatbot.connected THEN clear_history(chatbot) ELSE chatbot
    /\ c_last' = LastOp("clear", chatbot.conversation_history, <<>>,
                        chat_messages, <<>>, <<>>)
    /\ UNCHANGED <<c_pc, c_call>>
    /\ UNCHANGED <<gvars, pvars>>

\* lines 340-344
ChatInit ==
    /\ chatbot = NoChatbot
    /\ chat_messages = <<>>
    /\ c_pc = "idle"
    /\ c_call = NoCall
    /\ c_last = NoOp

(***************************************************************************)
(* Initial states and specifications.                                      *)
(***************************************************************************)
NoOutcome ==
    [op |-> "none", how |-> "none", exc |-> "none", warned |-> FALSE,
     read |-> NoFile, before |-> NoSession]

NoAck == [to |-> Missing, sent |-> FALSE]

\* telegram_connection.json outlives the process: at start it is absent,
\* or holds the record an earlier run of the listener wrote
EarlierSenders == { u \in Senders : u.chat_id = 1 }
InitialFiles ==
    {NoFile} \cup { FileWith(json_dumps(connection_data(u))) : u \in EarlierSenders }

PairingInit ==
    /\ file \in InitialFiles
    /\ l_pc = "idle"
    /\ l_data = NoData
    /\ acks = NoAck
    /\ session = NoSession
    /\ d_pc = "idle"
    /\ d_outcome = NoOutcome
    /\ alert = NoAlert
    /\ TOKEN \in BOOLEAN
    /\ model \in BOOLEAN
    /\ stdout_encodes \in BOOLEAN
    /\ last_put = Put(IF file.exists THEN json_loads(file.text) ELSE NoData, FALSE)
    /\ l_last = NoStep
    /\ bot_cache = FALSE
    /\ threads_started = 0
    /\ listener = "not_started"

Init == GatewayInit /\ PairingInit /\ ChatInit

GatewayNext == GetResponseStart \/ Post \/ Sleep

PairingNext ==
    \/ RunListener \/ StartCommand \/ WriteClose \/ SendAck
    \/ Rerun \/ Sincronizar \/ Analizar \/ AlertPost

ChatNext ==
    \/ Conectar \/ Limpiar
    \/ ChatSubmit \/ SdkCall \/ ChatPost \/ ChatSleep \/ ChatReturn

Next == GatewayNext \/ PairingNext \/ ChatNext

\* the first run of the process on a machine with a TOKEN, the model's
\* artifacts and a UTF-8 stdout: the chat gateway and the chat widget
\* read none of the file, the TOKEN, the model and sys.stdout
FreshInit == Init /\ file = NoFile /\ TOKEN /\ model /\ stdout_encodes

\* the chat gateway alone
SpecGateway == FreshInit /\ [][GatewayNext]_vars

\* the listener thread and the dashboard session, interleaved
SpecPairing == Init /\ [][PairingNext]_vars

\* the chat widget of one session
SpecChat == FreshInit /\ [][ChatNext]_vars

Spec == Init /\ [][Next]_vars


(***************************************************************************)
(* Properties of the chat gateway, checked under SpecGateway.              *)
(***************************************************************************)
NumResponses == Len(responses)
LastResponse == responses[Len(responses)]
NumRequests == Cardinality({n \in 1..Len(log) : log[n].ev = "request"})
Is429(r) == r.kind = "http" /\ r.status = 429
AllRateLimited ==
    /\ NumResponses = max_retries
    /\ \A n \in 1..NumResponses : Is429(responses[n])

\* C1: when the provider answers 429 on all 3 attempts the call has
\* returned the fixed rate-limit message of line 257 after exactly 3
\* requests; and no call ever makes a 4th request.
C1_RateLimitExhausted ==
    /\ NumRequests <= 3
    /\ AllRateLimited =>
        /\ g_pc = "done"
        /\ result = Str(MSG_RATE_LIMIT, 0)
        /\ NumRequests = 3

C1_Witness ==
    /\ AllRateLimited
    /\ g_pc = "done"
    /\ result = Str(MSG_RATE_LIMIT, 0)

\* 429 without a Retry-After header, twice, then a well-formed 200
TwiceLimitedThenOk ==
    /\ NumResponses = 3
    /\ responses[1] = Resp("http", 429, NoHeader, "", "")
    /\ responses[2] = Resp("http", 429, NoHeader, "", "")
    /\ responses[3].kind = "http"
    /\ responses[3].status = 200
    /\ responses[3].body = "reply"

\* C2: after 429, 429, 200 the call returns the reply of the third
\* attempt, and without a Retry-After hint the wait before the second
\* attempt is 1 second and the wait before the third is 2 seconds.
C2_SucceedsOnThirdAttempt ==
    TwiceLimitedThenOk =>
        /\ g_pc = "done"
        /\ result = Reply(responses[3].reply)
        /\ waits = <<Numeral(1), Numeral(2)>>
        /\ NumRequests = 3

C2_Witness ==
    /\ TwiceLimitedThenOk
    /\ result = Reply("r2")
    /\ waits = <<Numeral(1), Numeral(2)>>

\* the wait C3 states for a 429 on attempt a with Retry-After header h
ClaimedWait(a, h) ==
    CASE h = Header(<<"0">>) -> Numeral(0)
      [] h = Header(<<"5">>) -> Numeral(5)
      [] h = Header(<<"9", "0">>) -> Numeral(90)
      [] h = Header(<<"+", "2">>) -> Numeral(2)
      [] h = Header(<<"-", "1">>) -> Numeral(0 - 1)
      [] h = Header(<<"1", "_", "0">>) -> Numeral(10)
      [] h = Header(<<" ", "5">>) -> Numeral(5)
      [] h = Header(<<"9", "9", "9", "9", "9", "9", "9", "9", "9", "9">>) ->
            PyNum(FALSE, <<"9", "9", "9", "9", "9", "9", "9", "9", "9", "9">>)
      [] h = Header(<<"9", "2", "2", "3", "3", "7", "2", "0", "3", "6">>) ->
            PyNum(FALSE, <<"9", "2", "2", "3", "3", "7", "2", "0", "3", "6">>)
      [] h = Header(<<"9", "0", "0", "0", "0", "0", "0", "0", "0", "0">>) ->
            PyNum(FALSE, <<"9", "0", "0", "0", "0", "0", "0", "0", "0", "0">>)
      [] h = Header(<<"-", "4", "0", "0", "0", "0", "0", "0", "0", "0", "0">>) ->
            PyNum(TRUE, <<"4", "0", "0", "0", "0", "0", "0", "0", "0", "0">>)
      [] OTHER -> Numeral(IF a = 0 THEN 1 ELSE IF a = 1 THEN 2 ELSE 4)

\* C3: after a 429 on a non-final attempt the gateway waits the hinted
\* number of seconds, whatever integer the hint is (0, more than 60,
\* negative), or min(1 * 2^attempt, 60) without an integer hint, and then
\* performs the next attempt.
C3_HintOverridesDelay ==
    (NumResponses > 0 /\ NumResponses < max_retries /\ Is429(LastResponse)) =>
        \/ /\ g_pc = "sleep"
           /\ delay = ClaimedWait(NumResponses - 1, LastResponse.retry_after)
        \/ /\ g_pc = "post"
           /\ attempt = NumResponses
           /\ waits # <<>>
           /\ waits[Len(waits)] = ClaimedWait(NumResponses - 1, LastResponse.retry_after)

IsFailureStatus(r) ==
    r.kind = "http" /\ r.status >= 400 /\ r.status # 429

\* the string C4 states for a failure status
ClaimedClass(st) ==
    IF st = 401 THEN Str(MSG_INVALID_KEY, 0)
    ELSE IF st = 402 THEN Str(MSG_NO_CREDIT, 0)
    ELSE Str(MSG_HTTP_ERROR, st)

\* C4: a response with a non-rate-limit failure status (401, 402, 500) on
\* any attempt ends the call at once: it is the last response of the
\* call, nothing (no wait, no request) follows it in the log, and the
\* call has returned the string classified for that status.
C4_FailureStatusEndsCall ==
    \A n \in 1..NumResponses :
        IsFailureStatus(responses[n]) =>
            /\ n = NumResponses
            /\ g_pc = "done"
            /\ log[Len(log)] = Event("response", responses[n].status)
            /\ result = ClaimedClass(responses[n].status)

C4_Witness ==
    /\ NumResponses = 3
    /\ IsFailureStatus(LastResponse)
    /\ LastResponse.status = 500
    /\ g_pc = "done"
    /\ result = Str(MSG_HTTP_ERROR, 500)

\* C5: a request timeout on any attempt ends the call with the timeout
\* message, which is none of the rate-limit, HTTP-status,
\* connection-error and malformed-response messages, and no attempt
\* follows the timeout.
C5_TimeoutEndsCall ==
    \A n \in 1..NumResponses :
        responses[n].kind = "Timeout" =>
            /\ n = NumResponses
            /\ g_pc = "done"
            /\ log[Len(log)].ev = "response"
            /\ result = Str(MSG_TIMEOUT, 0)
            /\ result.msg \notin {MSG_RATE_LIMIT, MSG_RATE_LIMIT_HTTP,
                                  MSG_INVALID_KEY, MSG_NO_CREDIT, MSG_HTTP_ERROR,
                                  MSG_CONNECTION, MSG_BAD_FORMAT, MSG_UNEXPECTED}

C5_Witness ==
    /\ NumResponses = 2
    /\ LastResponse.kind = "Timeout"
    /\ g_pc = "done"
    /\ result = Str(MSG_TIMEOUT, 0)

\* C6: whatever the provider answers, the call returns a text value (the
\* reply or a failure detail), never no value.
C6_AlwaysReturnsText ==
    g_pc = "done" => result.kind = "str"

(***************************************************************************)
(* Properties of the pairing store, checked under SpecPairing.             *)
(***************************************************************************)
CompleteRecords == { FileWith(json_dumps(connection_data(u))) : u \in Senders }
StoreRecipient(f) == DictGet(json_loads(f.text), "chat_id")

\* C7: a triggered alert is sent to the recipient of the record the
\* store holds at the moment of the send.
C7_AlertGoesToCurrentPairing ==
    (alert.calls > 0 /\ alert.store \in CompleteRecords) =>
        alert.to = StoreRecipient(alert.store)

\* C8: a dashboard read of the pairing file yields absence or a complete
\* record, never a partially written one.
C8_NoPartialRead ==
    d_outcome.op = "sync" =>
        \/ ~d_outcome.read.exists
        \/ d_outcome.read \in CompleteRecords

\* C9: reading a malformed record reports "not paired", raises nothing
\* and leaves the synchronised state unchanged.
C9_MalformedIsAbsent ==
    (d_outcome.op = "sync" /\ d_outcome.read.exists
        /\ d_outcome.read \notin CompleteRecords) =>
        /\ d_outcome.how = "warning_not_paired"
        /\ session = d_outcome.before

\* C10: reading the pairing while the file does not exist, open()
\* finding no file, reports "not paired" (the FileNotFoundError is
\* caught), is no error and changes nothing in the session.
C10_FreshStoreIsAbsent ==
    (d_outcome.op = "sync" /\ ~d_outcome.read.exists
        /\ d_outcome.exc # "OSError") =>
        /\ d_outcome.how = "warning_not_paired"
        /\ d_outcome.exc = "FileNotFoundError"
        /\ session = d_outcome.before
        /\ session = NoSession

C10_Witness ==
    /\ d_outcome.op = "sync"
    /\ ~d_outcome.read.exists
    /\ d_outcome.how = "warning_not_paired"

(***************************************************************************)
(* Properties of the pairing store, the listener, the dispatcher and the   *)
(* alert evaluation, checked under SpecPairing.                            *)
(***************************************************************************)
\* C11: when no write is in progress and the last write completed, the
\* file parses and reading it gives exactly the record last written
\* (chat_id, name, username, nothing else); and a Sincronizar that
\* opened and read a complete file ends in success with the chat_id and
\* the name of the record it read in the session.
C11_ReadReturnsLastWrite ==
    /\ (l_pc # "opened" /\ last_put.data # NoData /\ ~last_put.failed_after) =>
        /\ file.exists
        /\ JsonParses(file.text)
        /\ json_loads(file.text) = last_put.data
    /\ (d_outcome.op = "sync" /\ d_outcome.read.exists
            /\ d_outcome.exc # "OSError"
            /\ JsonParses(d_outcome.read.text)) =>
        /\ d_outcome.how = "success"
        /\ session = Session(DictGet(json_loads(d_outcome.read.text), "chat_id"),
                             DictGet(json_loads(d_outcome.read.text), "name"))

C11_Witness ==
    /\ l_last.step = "ack_sent"
    /\ l_pc = "idle"
    /\ last_put = Put(l_last.data, FALSE)
    /\ DictGet(last_put.data, "username") = PNoneV
    /\ d_outcome.op = "sync"
    /\ d_outcome.read = file
    /\ json_loads(file.text) = last_put.data

\* C12: however many script runs call the bootstrap, at most one
\* listener thread is started.
C12_AtMostOneListener ==
    /\ threads_started <= 1
    /\ bot_cache <=> threads_started = 1

C12_Witness ==
    /\ threads_started = 1
    /\ session # NoSession
    /\ d_outcome.op = "analyze"

\* C13: when the acknowledgment of a written record fails, the file
\* still holds the new record, send_message was called once for it and
\* is not called again, and the handler has ended without raising: the
\* listener polls on, idle.
C13_AckFailureKeepsRecord ==
    l_last.step = "ack_failed" =>
        /\ file = FileWith(json_dumps(l_last.data))
        /\ last_put = Put(l_last.data, FALSE)
        /\ l_last.acks_tried = 1
        /\ acks = [to |-> DictGet(l_last.data, "chat_id"), sent |-> FALSE]
        /\ l_pc = "idle"
        /\ listener = "polling"

C13_Witness ==
    /\ l_last.step = "ack_failed"
    /\ file = FileWith(json_dumps(l_last.data))
    /\ l_pc = "idle"

\* C14: with a TOKEN, one call of send_telegram_alert that has returned
\* made exactly one requests.post, whatever its outcome.
C14_ExactlyOneSend ==
    (alert.ran /\ alert.invoked /\ TOKEN /\ d_pc = "idle") =>
        /\ alert.calls = 1
        /\ alert.outcome \in SendOutcomes

C14_Witness ==
    /\ d_pc = "idle"
    /\ alert.invoked
    /\ TOKEN
    /\ alert.calls = 1
    /\ alert.outcome.kind = "exception"

NonEmptyDetail(d) == \E n \in 1..Len(d) : d[n] # ""
Is200(o) == o.kind = "http" /\ o.status = 200

\* C15: the dispatch that made its post returns delivered = true exactly
\* when the response's status is 200; otherwise it returns
\* delivered = false with a non-empty detail, and raises nothing: the
\* script run goes on to st.error.
C15_DeliveredIff200 ==
    alert.calls >= 1 =>
        /\ alert.ok <=> Is200(alert.outcome)
        /\ ~alert.ok =>
            /\ NonEmptyDetail(alert.detail)
            /\ d_outcome.how = "success"

C15_Witness ==
    /\ alert.calls = 1
    /\ alert.outcome = SendOutcome("http", 500, "")
    /\ ~alert.ok
    /\ NonEmptyDetail(alert.detail)

\* C16: without a TOKEN the dispatch makes no requests.post and returns
\* delivered = false with a detail; the started thread's run_listener
\* returns without polling and without raising; and the handler never
\* runs, so no record is written and no acknowledgment sent.
C16_NoTokenDisablesBoth ==
    ~TOKEN =>
        /\ listener \notin {"polling", "raised"}
        /\ bot_cache => listener \in {"starting", "returned"}
        /\ l_last = NoStep
        /\ l_pc = "idle"
        /\ acks = NoAck
        /\ file \in InitialFiles
        /\ (alert.ran /\ alert.invoked) =>
            /\ alert.calls = 0
            /\ ~alert.ok
            /\ NonEmptyDetail(alert.detail)
            /\ d_outcome.how = "success"

ModelReason == Reason("IA detecto riesgo", alert.confidence)
RangeReason == Reason("pH fuera de norma", alert.ph)

\* C17: the reasons of an evaluated sample are the model reason exactly
\* when the label is 0 (not potable), followed by the range reason
\* exactly when pH < 6.5 or pH > 8.5: the range rule fires at 6.4 and
\* 8.6 and not at 6.5 and 8.5; a potable label with pH in [6.5, 8.5]
\* gives no trigger and no reasons.
C17_ReasonsFollowRules ==
    alert.ran =>
        /\ alert.reasons =
              (IF alert.prediction = 0 THEN <<ModelReason>> ELSE <<>>)
              \o (IF alert.ph < 65 \/ alert.ph > 85 THEN <<RangeReason>> ELSE <<>>)
        /\ alert.ph \in {64, 86} =>
              alert.reasons[Len(alert.reasons)] = RangeReason
        /\ alert.ph \in {65, 85} =>
              \A n \in 1..Len(alert.reasons) : alert.reasons[n] # RangeReason
        /\ (alert.prediction = 1 /\ alert.ph >= 65 /\ alert.ph <= 85) =>
              ~alert.triggered /\ alert.reasons = <<>>

C17_Witness ==
    /\ alert.ran
    /\ alert.prediction = 0
    /\ alert.ph = 86
    /\ alert.reasons = <<ModelReason, RangeReason>>

\* C18: an evaluated sample triggers the alert exactly when it has at
\* least one reason.
C18_TriggeredIffReasons ==
    alert.triggered <=> alert.reasons # <<>>

C18_Witness ==
    /\ alert.ran
    /\ alert.prediction = 1
    /\ alert.triggered
    /\ alert.reasons = <<RangeReason>>

(***************************************************************************)
(* Properties of the chat widget, checked under SpecChat.                  *)
(***************************************************************************)
\* C19: a call of chat() leaves the turns of the session as they were:
\* the conversation_history and the chat_messages at its return are
\* those at its call.
C19_ChatLeavesTurnsAlone ==
    c_last.op = "chat" =>
        /\ c_last.history_after = c_last.history_before
        /\ c_last.messages_after = c_last.messages_before

\* C20: after Conectar has replaced the gateway, the history the next
\* reply will be produced from is the history held before the switch.
C20_SwitchKeepsHistory ==
    c_last.op = "connect" =>
        chatbot.conversation_history = c_last.history_before

\* the turn the widget appended for the prompt of the last chat() call
NewUserTurn == c_last.messages_before[Len(c_last.messages_before)]

\* C21: the request of a chat turn is the system preamble, then the
\* turns completed before the call in their order, then the new user
\* message, once and last.
C21_RequestIsPreambleHistoryMessage ==
    /\ c_pc = "calling" =>
        c_call.request = <<Turn("system", SystemText)>>
                         \o c_call.history_at_call
                         \o <<Turn("user", UserText(c_call.prompt))>>
    /\ c_last.op = "chat" =>
        c_last.request = <<Turn("system", SystemText)>>
                         \o c_last.history_before
                         \o <<NewUserTurn>>

Alternates(turns) ==
    \A n \in 1..Len(turns) :
        turns[n].role = IF n % 2 = 1 THEN "user" ELSE "assistant"
EndsCompleted(turns) == turns = <<>> \/ turns[Len(turns)].role = "assistant"

\* C22: conversation_history and chat_messages alternate user,
\* assistant from a user turn on, whatever the provider calls gave and
\* wherever they were cleared; between calls each is empty or ends with
\* an assistant turn.
C22_TurnsAlternate ==
    /\ Alternates(chatbot.conversation_history)
    /\ Alternates(chat_messages)
    /\ c_pc = "idle" =>
        /\ EndsCompleted(chatbot.conversation_history)
        /\ EndsCompleted(chat_messages)

C22_Witness ==
    /\ c_pc = "idle"
    /\ c_last.op = "chat"
    /\ Len(chat_messages) = 4
    /\ chat_messages[2].content = Str(MSG_TIMEOUT, 0)
    /\ chat_messages[4].content = Reply("r1")
    /\ Len(chatbot.conversation_history) = 2

\* C23: in the log of a call, every request after the first comes
\* right after one sleep that comes right after a 429 response, and the
\* log of a finished call does not end with a sleep.
C23_OnlyRateLimitRetries ==
    /\ \A n \in 1..Len(log) :
        (log[n].ev = "request" /\ log[n].val > 0) =>
            /\ n > 3
            /\ log[n - 1].ev = "sleep"
            /\ log[n - 2] = Event("response", 429)
    /\ (g_pc = "done" /\ log # <<>>) => log[Len(log)].ev # "sleep"

\* C24: the script run of Analizar calls send_telegram_alert exactly
\* when the sample triggered and the session holds a synchronised
\* recipient; without the call there is no post, and with it there is
\* one call and, given a TOKEN, one post when the call has returned.
C24_SendsOnlyWhenTriggeredAndPaired ==
    alert.ran =>
        /\ alert.invoked <=> (alert.triggered /\ session.tg_id # Missing)
        /\ ~alert.invoked => alert.calls = 0 /\ alert.outcome = NoSend
        /\ alert.invoked => alert.calls <= 1
        /\ (alert.invoked /\ TOKEN /\ d_pc = "idle") => alert.calls = 1

C24_Witness ==
    /\ alert.ran
    /\ alert.triggered
    /\ session.tg_id = Missing
    /\ ~alert.invoked
    /\ alert.calls = 0

\* C25: when open() or the flush of the record fails, send_message is
\* not called for that command and the handler ends, the listener
\* polling on and idle; send_message has been called only for a record
\* that the file holds complete.
C25_NoAckAfterFailedWrite ==
    /\ l_last.step \in {"open_failed", "flush_failed"} =>
        /\ l_last.acks_tried = 0
        /\ l_pc = "idle"
        /\ listener = "polling"
    /\ l_last.acks_tried > 0 =>
        /\ l_last.step \in {"ack_sent", "ack_failed"}
        /\ last_put = Put(l_last.data, FALSE)
        /\ file = FileWith(json_dumps(l_last.data))
    /\ l_pc = "written" => l_last.step = "flushed"

C25_Witness ==
    /\ l_last.step = "flush_failed"
    /\ l_last.acks_tried = 0
    /\ l_pc = "idle"
    /\ file = FileWith(JsonText(TRUE, <<>>, FALSE))

====
